---------------------------- MODULE Spec2Model ----------------------------
(***************************************************************************)
(* EIP-712 authorization signatures for PDP operations (synapse-sdk).      *)
(*                                                                         *)
(*   utils/eip712.ts   EIP712_TYPES, getEIP712TypeString                   *)
(*   pdp/auth.ts       PDPAuthHelper: signer probe and four sign operations*)
(*   session/key.ts    SessionKey: fetchExpiries and login                 *)
(*                                                                         *)
(* JavaScript strings that the code takes apart or builds character by     *)
(* character (decimal and hex renderings) are sequences of one-character   *)
(* strings; strings the code only passes around or concatenates are TLA+   *)
(* strings.  Integers of arbitrary size are decimal digit sequences.       *)
(***************************************************************************)
EXTENDS Integers, Sequences, FiniteSets, TLC

VARIABLES
    signer,          \* PDPAuthHelper.signer (fixed at construction)
    domain,          \* PDPAuthHelper.domain (fixed at construction)
    windowEthereum,  \* globalThis.window.ethereum != null
    calls,           \* per slot: a call on the helper, its arguments, how far it got,
                     \* the path its probe chose, the requests it issued, its result
    probed,          \* the path chosen by the latest call that ran the probe, "none" before any
    expiries,        \* SessionKey.expiries (the revision that caches them)
    caller           \* per call site: its call on the SessionKey and how far it got

vars == <<signer, domain, windowEthereum, calls, probed, expiries, caller>>

Range(s) == {s[i] : i \in DOMAIN s}

(***************************************************************************)
(* utils/eip712.ts                                                         *)
(***************************************************************************)

\* A field type is its base name, followed by "[]" when it is an array.
EIP712_TYPES ==
    [MetadataEntry |->
        <<[name |-> "key", type |-> <<"string">>],
          [name |-> "value", type |-> <<"string">>]>>,
     CreateDataSet |->
        <<[name |-> "clientDataSetId", type |-> <<"uint256">>],
          [name |-> "payee", type |-> <<"address">>],
          [name |-> "metadata", type |-> <<"MetadataEntry", "[]">>]>>,
     Cid |->
        <<[name |-> "data", type |-> <<"bytes">>]>>,
     PieceMetadata |->
        <<[name |-> "pieceIndex", type |-> <<"uint256">>],
          [name |-> "metadata", type |-> <<"MetadataEntry", "[]">>]>>,
     AddPieces |->
        <<[name |-> "clientDataSetId", type |-> <<"uint256">>],
          [name |-> "firstAdded", type |-> <<"uint256">>],
          [name |-> "pieceData", type |-> <<"Cid", "[]">>],
          [name |-> "pieceMetadata", type |-> <<"PieceMetadata", "[]">>]>>,
     SchedulePieceRemovals |->
        <<[name |-> "clientDataSetId", type |-> <<"uint256">>],
          [name |-> "pieceIds", type |-> <<"uint256", "[]">>]>>,
     DeleteDataSet |->
        <<[name |-> "clientDataSetId", type |-> <<"uint256">>]>>]

TypeNames == DOMAIN EIP712_TYPES

\* EIP712_TYPES is an object literal: the `in` operator also finds the
\* properties it inherits from Object.prototype.
ObjectPrototypeKeys ==
    {"__defineGetter__", "__defineSetter__", "__lookupGetter__", "__lookupSetter__",
     "__proto__", "constructor", "hasOwnProperty", "isPrototypeOf",
     "propertyIsEnumerable", "toLocaleString", "toString", "valueOf"}

InEIP712Types(name) == name \in TypeNames \/ name \in ObjectPrototypeKeys

\* arg.type as the string it is in the source
TypeText(type) == IF Len(type) = 2 THEN type[1] \o type[2] ELSE type[1]

\* arg.type.endsWith('[]') ? arg.type.slice(0, -2) : arg.type
BaseType(type) == IF type[Len(type)] = "[]" THEN type[1] ELSE TypeText(type)

RECURSIVE JoinArgs(_, _)
\* args.map((arg) => `${arg.type} ${arg.name}`).join(',') from index i on
JoinArgs(args, i) ==
    IF i > Len(args) THEN ""
    ELSE TypeText(args[i].type) \o " " \o args[i].name
         \o (IF i < Len(args) THEN "," ELSE "") \o JoinArgs(args, i + 1)

\* `${typeName}(${argStrings})`
Fragment(typeName) == typeName \o "(" \o JoinArgs(EIP712_TYPES[typeName], 1) \o ")"

MapHas(typeMap, name) == \E i \in DOMAIN typeMap : typeMap[i].name = name

\* A collection that follows no field.
RootOnly(typeMap, args, i) == typeMap

RECURSIVE CollectType(_, _), CollectFields(_, _, _)
\* for (const arg of args) collectType(baseType), from field i on
CollectFields(typeMap, args, i) ==
    IF i > Len(args) THEN typeMap
    ELSE CollectFields(CollectType(typeMap, BaseType(args[i].type)), args, i + 1)

\* collectType: returns at once when the type is in the map or is not in
\* EIP712_TYPES; else sets the map entry, then recurses into the base type of
\* each field.  A Map keeps its entries in insertion order.
CollectType(typeMap, typeName) ==
    IF MapHas(typeMap, typeName) \/ ~InEIP712Types(typeName) THEN typeMap
    ELSE CollectFields(
            Append(typeMap, [name |-> typeName, str |-> Fragment(typeName)]),
            EIP712_TYPES[typeName], 1)

\* The characters of the type names, for localeCompare.
NameLetters ==
    [MetadataEntry |-> <<"M","e","t","a","d","a","t","a","E","n","t","r","y">>,
     CreateDataSet |-> <<"C","r","e","a","t","e","D","a","t","a","S","e","t">>,
     Cid |-> <<"C","i","d">>,
     PieceMetadata |-> <<"P","i","e","c","e","M","e","t","a","d","a","t","a">>,
     AddPieces |-> <<"A","d","d","P","i","e","c","e","s">>,
     SchedulePieceRemovals |-> <<"S","c","h","e","d","u","l","e","P","i","e","c","e","R","e","m","o","v","a","l","s">>,
     DeleteDataSet |-> <<"D","e","l","e","t","e","D","a","t","a","S","e","t">>]

LowerCase == <<"a","b","c","d","e","f","g","h","i","j","k","l","m","n","o","p","q","r","s","t","u","v","w","x","y","z">>
UpperCase == <<"A","B","C","D","E","F","G","H","I","J","K","L","M","N","O","P","Q","R","S","T","U","V","W","X","Y","Z">>

\* Position of a letter in the alphabet, whatever its case.
LetterRank(c) == CHOOSE i \in 1..Len(LowerCase) : LowerCase[i] = c \/ UpperCase[i] = c

IsUpperCase(c) == c \in Range(UpperCase)

RECURSIVE ComparePrimary(_, _, _)
\* Alphabetical comparison ignoring case, from position i on: -1, 0 or 1.
ComparePrimary(a, b, i) ==
    IF i > Len(a) /\ i > Len(b) THEN 0
    ELSE IF i > Len(a) THEN -1
    ELSE IF i > Len(b) THEN 1
    ELSE IF LetterRank(a[i]) < LetterRank(b[i]) THEN -1
    ELSE IF LetterRank(a[i]) > LetterRank(b[i]) THEN 1
    ELSE ComparePrimary(a, b, i + 1)

RECURSIVE CompareCase(_, _, _)
\* Between strings equal up to case: lower case first at the first difference.
CompareCase(a, b, i) ==
    IF i > Len(a) THEN 0
    ELSE IF IsUpperCase(a[i]) = IsUpperCase(b[i]) THEN CompareCase(a, b, i + 1)
    ELSE IF IsUpperCase(b[i]) THEN -1 ELSE 1

\* a.localeCompare(b) on type names
LocaleCompare(a, b) ==
    LET p == ComparePrimary(NameLetters[a], NameLetters[b], 1)
    IN  IF p # 0 THEN p ELSE CompareCase(NameLetters[a], NameLetters[b], 1)

RECURSIVE InsertSorted(_, _)
\* Insert entry e into the sorted list, after the entries that compare equal.
InsertSorted(sorted, e) ==
    IF sorted = <<>> THEN <<e>>
    ELSE IF LocaleCompare(e.name, Head(sorted).name) < 0 THEN <<e>> \o sorted
    ELSE <<Head(sorted)>> \o InsertSorted(Tail(sorted), e)

RECURSIVE SortFrom(_, _, _)
SortFrom(entries, i, sorted) ==
    IF i > Len(entries) THEN sorted
    ELSE SortFrom(entries, i + 1, InsertSorted(sorted, entries[i]))

\* The entries left in the order the map holds them.
InsertionOrder(entries) == entries

\* Array.prototype.sort(([a], [b]) => a.localeCompare(b)): a stable sort
SortByName(entries) == SortFrom(entries, 1, <<>>)

\* .filter(([name]) => name !== rootType)
FilterNotRoot(entries, rootType) ==
    SelectSeq(entries, LAMBDA e : e.name # rootType)

RECURSIVE JoinStrs(_, _)
\* .map(([, str]) => str).join('')
JoinStrs(entries, i) ==
    IF i > Len(entries) THEN "" ELSE entries[i].str \o JoinStrs(entries, i + 1)

Return(v) == [value |-> v, kind |-> "return"]
Throw(name, message) == [kind |-> "throw", message |-> message, error |-> name]

\* Array.from(typeMap.entries()).filter(...).sort(...).map(...).join('')
OtherStrings(typeMap, rootType) ==
    JoinStrs(SortByName(FilterNotRoot(typeMap, rootType)), 1)

\* getEIP712TypeString(rootType).  A name that `in` finds only on
\* Object.prototype passes the first test; collectType then reads a value
\* that is no array and its args.map call raises a TypeError.
getEIP712TypeString(rootType) ==
    IF ~InEIP712Types(rootType)
    THEN Throw("Error", "Type '" \o rootType \o "' does not exist in EIP712_TYPES")
    ELSE IF rootType \notin TypeNames
    THEN Throw("TypeError", "args.map is not a function")
    ELSE LET typeMap == CollectType(<<>>, rootType) IN
         IF ~MapHas(typeMap, rootType)
         THEN Throw("Error", "Failed to build type string for " \o rootType)
         ELSE Return(Fragment(rootType) \o OtherStrings(typeMap, rootType))

(***************************************************************************)
(* JavaScript numbers, bigints and their conversions (pdp/auth.ts).        *)
(* An integer is a sign and the decimal digits of its magnitude, most      *)
(* significant first, without leading zeros (zero is <<0>>).               *)
(***************************************************************************)

Digits == 0..9

RECURSIVE Strip(_)
\* drop leading zeros
Strip(d) == IF Len(d) > 1 /\ d[1] = 0 THEN Strip(Tail(d)) ELSE d

RECURSIVE Pad(_, _)
\* d with leading zeros up to length n
Pad(d, n) == IF Len(d) >= n THEN d ELSE Pad(<<0>> \o d, n)

Max(a, b) == IF a >= b THEN a ELSE b

RECURSIVE LexLess(_, _, _)
LexLess(a, b, i) ==
    IF i > Len(a) THEN FALSE
    ELSE IF a[i] # b[i] THEN a[i] < b[i]
    ELSE LexLess(a, b, i + 1)

\* a < b on magnitudes
DLess(a, b) ==
    IF Len(a) # Len(b) THEN Len(a) < Len(b) ELSE LexLess(a, b, 1)

RECURSIVE AddFrom(_, _, _, _, _)
AddFrom(a, b, i, carry, acc) ==
    IF i = 0 THEN (IF carry = 1 THEN <<1>> \o acc ELSE acc)
    ELSE LET t == a[i] + b[i] + carry
         IN  AddFrom(a, b, i - 1, t \div 10, <<t % 10>> \o acc)

\* a + b on magnitudes
DAdd(a, b) ==
    LET n == Max(Len(a), Len(b)) IN AddFrom(Pad(a, n), Pad(b, n), n, 0, <<>>)

RECURSIVE SubFrom(_, _, _, _, _)
SubFrom(a, b, i, borrow, acc) ==
    IF i = 0 THEN Strip(acc)
    ELSE LET t == a[i] - b[i] - borrow
         IN  SubFrom(a, b, i - 1, IF t < 0 THEN 1 ELSE 0,
                     <<IF t < 0 THEN t + 10 ELSE t>> \o acc)

\* a - b on magnitudes, for a >= b
DSub(a, b) == SubFrom(a, Pad(b, Len(a)), Len(a), 0, <<>>)

\* |a - b| on magnitudes
DDist(a, b) == IF DLess(a, b) THEN DSub(b, a) ELSE DSub(a, b)

DDouble(a) == DAdd(a, a)

RECURSIVE HalfFrom(_, _, _, _)
HalfFrom(a, i, rem, acc) ==
    IF i > Len(a) THEN Strip(acc)
    ELSE LET cur == rem * 10 + a[i]
         IN  HalfFrom(a, i + 1, cur % 2, Append(acc, cur \div 2))

\* floor(a / 2) on magnitudes
DHalf(a) == HalfFrom(a, 1, 0, <<>>)

IsEven(a) == a[Len(a)] % 2 = 0

RECURSIVE Pow2(_)
Pow2(e) == IF e = 0 THEN <<1>> ELSE DDouble(Pow2(e - 1))

\* 2^53 and 2^52: a double's mantissa m satisfies 2^52 <= m < 2^53 once the
\* value is 2^52 or more
TwoPow53 == <<9,0,0,7,1,9,9,2,5,4,7,4,0,9,9,2>>
TwoPow52 == <<4,5,0,3,5,9,9,6,2,7,3,7,0,4,9,6>>

RECURSIVE BinaryExponent(_)
\* the e of an integer double x = m * 2^e with m < 2^53
BinaryExponent(x) ==
    IF DLess(x, TwoPow53) THEN 0 ELSE 1 + BinaryExponent(DHalf(x))

RECURSIVE HalfTimes(_, _)
HalfTimes(x, e) == IF e = 0 THEN x ELSE HalfTimes(DHalf(x), e - 1)

\* Whether the decimal c reads back as the double x: twice its distance to x
\* is below the gap to the neighbouring double on that side, or equal to it
\* when the mantissa of x is even.
ReadsBackAs(c, x, gapAbove, gapBelow, even) ==
    LET gap == IF DLess(c, x) THEN gapBelow ELSE gapAbove
        twice == DDouble(DDist(c, x))
    IN  DLess(twice, gap) \/ (twice = gap /\ even)

\* the first k digits of x, then zeros
TruncateTo(x, k) == [i \in 1..Len(x) |-> IF i <= k THEN x[i] ELSE 0]

\* 10^j
Pow10(j) == [i \in 1..(j + 1) |-> IF i = 1 THEN 1 ELSE 0]

\* The k-digit decimals around x, nearest first (the even one first on a tie).
Candidates(x, k) ==
    LET lo == TruncateTo(x, k)
        hi == DAdd(lo, Pow10(Len(x) - k))
        dlo == DDist(lo, x)
        dhi == DDist(hi, x)
    IN  IF DLess(dlo, dhi) \/ (dlo = dhi /\ lo[k] % 2 = 0)
        THEN <<lo, hi>> ELSE <<hi, lo>>

RECURSIVE ShortestFrom(_, _, _, _, _)
\* The decimal with the fewest significant digits (k or more) that reads back
\* as x, the one nearest to x among those.
ShortestFrom(x, k, gapAbove, gapBelow, even) ==
    IF k >= Len(x) THEN x
    ELSE LET c == Candidates(x, k) IN
         IF ReadsBackAs(c[1], x, gapAbove, gapBelow, even) THEN c[1]
         ELSE IF ReadsBackAs(c[2], x, gapAbove, gapBelow, even) THEN c[2]
         ELSE ShortestFrom(x, k + 1, gapAbove, gapBelow, even)

\* Number::toString's digits for the integer double x = m * 2^e.  The next
\* double above is 2^e away; the one below is 2^e away too, or 2^(e-1) when
\* x is a power of two.  Below 2^53 every integer is a double of its own and
\* only x reads back as x.
ShortestDecimalOf(x) ==
    IF DLess(x, TwoPow53) THEN x
    ELSE LET e == BinaryExponent(x)
             m == HalfTimes(x, e)
         IN  ShortestFrom(x, 1, Pow2(e),
                          IF m = TwoPow52 THEN Pow2(e - 1) ELSE Pow2(e),
                          IsEven(m))

\* 2^64 and 10^21: identifiers beyond Number.MAX_SAFE_INTEGER
TwoPow64 == <<1, 8, 4, 4, 6, 7, 4, 4, 0, 7, 3, 7, 0, 9, 5, 5, 1, 6, 1, 6>>
TenPow21 == <<1, 0, 0, 0, 0, 0, 0, 0, 0, 0, 0, 0, 0, 0, 0, 0, 0, 0, 0, 0, 0, 0>>

\* The conversions of these two, worked out once.
Converted == [x \in {TwoPow64, TenPow21} |-> ShortestDecimalOf(x)]

ShortestDecimal(x) ==
    IF x \in DOMAIN Converted THEN Converted[x] ELSE ShortestDecimalOf(x)

DigitChars == <<"0", "1", "2", "3", "4", "5", "6", "7", "8", "9">>

\* the characters of a magnitude
DigitString(d) == [i \in 1..Len(d) |-> DigitChars[d[i] + 1]]

RECURSIVE NatDigits(_)
\* the digits of a small natural number
NatDigits(n) == IF n < 10 THEN <<n>> ELSE Append(NatDigits(n \div 10), n % 10)

RECURSIVE DropTrailingZeros(_)
DropTrailingZeros(d) ==
    IF Len(d) > 1 /\ d[Len(d)] = 0 THEN DropTrailingZeros(SubSeq(d, 1, Len(d) - 1)) ELSE d

\* Number::toString lays out a value of more than 21 digits as d.ddde+n.
ExponentialString(c) ==
    LET sig == DropTrailingZeros(c)
    IN  <<DigitChars[sig[1] + 1]>>
        \o (IF Len(sig) > 1 THEN <<".">> \o DigitString(Tail(sig)) ELSE <<>>)
        \o <<"e", "+">> \o DigitString(NatDigits(Len(c) - 1))

Num(neg, d) == [d |-> d, t |-> "number", neg |-> neg]
Big(neg, d) == [d |-> d, t |-> "bigint", neg |-> neg]
Str(chars) == [s |-> chars, t |-> "string"]

\* Number::toString's layout of the shortest decimal c: plain digits up to
\* 21 of them, exponential beyond
NumberLayout(neg, c) ==
    Str((IF neg THEN <<"-">> ELSE <<>>)
        \o (IF Len(c) <= 21 THEN DigitString(c) ELSE ExponentialString(c)))

\* Number.prototype.toString() of an integer-valued number
NumberToString(v) == NumberLayout(v.neg, ShortestDecimal(v.d))

\* BigInt.prototype.toString()
BigIntToString(v) ==
    Str((IF v.neg THEN <<"-">> ELSE <<>>) \o DigitString(v.d))

\* id.toString() for id: number | bigint
IdToString(v) == IF v.t = "number" THEN NumberToString(v) ELSE BigIntToString(v)

\* BigInt(id) for id: number | bigint: the exact value of an integer-valued
\* number, a bigint unchanged
ToBigInt(v) == Big(v.neg, v.d)

CharDigit(c) == CHOOSE n \in Digits : DigitChars[n + 1] = c

\* StrWhiteSpaceChar: the 25 code points of WhiteSpace and LineTerminator.
\* A string is a sequence of characters; tab, line feed, form feed, carriage
\* return and space are written as such, and a code point that a TLA+ string
\* cannot hold is written by its name, one element of the sequence: U+000B
\* (line tabulation), U+00A0 (no-break space), U+1680, U+2000 to U+200A,
\* U+2028 and U+2029 (line and paragraph separator), U+202F, U+205F, U+3000
\* and U+FEFF (byte order mark).
WhiteSpace ==
    {"\t", "\n", "U+000B", "\f", "\r", " ", "U+00A0", "U+1680",
     "U+2000", "U+2001", "U+2002", "U+2003", "U+2004", "U+2005", "U+2006",
     "U+2007", "U+2008", "U+2009", "U+200A", "U+2028", "U+2029", "U+202F",
     "U+205F", "U+3000", "U+FEFF"}

RECURSIVE Trim(_)
\* String.prototype.trim, which StringToBigInt applies first
Trim(chars) ==
    IF chars = <<>> THEN chars
    ELSE IF chars[1] \in WhiteSpace THEN Trim(Tail(chars))
    ELSE IF chars[Len(chars)] \in WhiteSpace THEN Trim(SubSeq(chars, 1, Len(chars) - 1))
    ELSE chars

UpperHexChars == <<"0", "1", "2", "3", "4", "5", "6", "7", "8", "9",
                   "A", "B", "C", "D", "E", "F">>
LowerHexChars == <<"0", "1", "2", "3", "4", "5", "6", "7", "8", "9",
                   "a", "b", "c", "d", "e", "f">>

\* The value of a digit character in the given radix; the radix itself when
\* the character is no digit of it.
DigitValue(c, radix) ==
    LET found == {n \in 1..radix : UpperHexChars[n] = c \/ LowerHexChars[n] = c}
    IN  IF found = {} THEN radix ELSE (CHOOSE n \in found : TRUE) - 1

RECURSIVE TimesPow2(_, _)
\* d * 2^k
TimesPow2(d, k) == IF k = 0 THEN d ELSE TimesPow2(DDouble(d), k - 1)

RECURSIVE RadixValue(_, _, _, _)
\* The magnitude of the digits from position i on, read in radix 2^bits and
\* added to acc * radix^(digits left).
RadixValue(chars, i, bits, acc) ==
    IF i > Len(chars) THEN acc
    ELSE RadixValue(chars, i + 1, bits,
            DAdd(TimesPow2(acc, bits), NatDigits(DigitValue(chars[i], 2^bits))))

\* How a reader of a typed-data document reads a uint256 given as a string,
\* BigInt(string): the string is trimmed; the empty string is 0; after 0x, 0o
\* or 0b (either case, no sign) come digits of that radix; else come an
\* optional sign and decimal digits; anything else is a SyntaxError.
ParseDecimal(chars) ==
    LET text == Trim(chars)
        bits == IF Len(text) < 2 \/ text[1] # "0" THEN 0
                ELSE IF text[2] \in {"x", "X"} THEN 4
                ELSE IF text[2] \in {"o", "O"} THEN 3
                ELSE IF text[2] \in {"b", "B"} THEN 1
                ELSE 0
        signed == text # <<>> /\ text[1] \in {"-", "+"}
        body == IF bits # 0 THEN SubSeq(text, 3, Len(text))
                ELSE IF signed THEN Tail(text) ELSE text
        radix == IF bits = 0 THEN 10 ELSE 2^bits
        magnitude ==
            IF bits = 0 THEN Strip([i \in DOMAIN body |-> CharDigit(body[i])])
            ELSE RadixValue(body, 1, bits, <<0>>)
    IN  IF text = <<>> THEN [d |-> <<0>>, neg |-> FALSE, ok |-> TRUE]
        ELSE IF body # <<>> /\ \A i \in DOMAIN body : DigitValue(body[i], radix) < radix
        THEN [d |-> magnitude, neg |-> text[1] = "-" /\ magnitude # <<0>>, ok |-> TRUE]
        ELSE [ok |-> FALSE]


(***************************************************************************)
(* Signer objects (pdp/auth.ts).                                           *)
(* A signer object is a key, possibly inside wrapper objects that hold it  *)
(* in a `signer` property and forward to it (ethers' NonceManager).        *)
(* `layers` are the constructor names of the wrappers, outermost first: a  *)
(* minified build renames NonceManager.                                    *)
(***************************************************************************)

Null == [t |-> "null"]

\* What a provider object exposes: `_eip1193Provider` (ethers' BrowserProvider,
\* around an EIP-1193 object with `request`), `request`, `send`.
BrowserProvider == [t |-> "provider", eip1193 |-> TRUE, request |-> FALSE, send |-> TRUE]
JsonRpcProvider == [t |-> "provider", eip1193 |-> FALSE, request |-> FALSE, send |-> TRUE]
Eip1193Provider == [t |-> "provider", eip1193 |-> FALSE, request |-> TRUE, send |-> FALSE]
PlainProvider == [t |-> "provider", eip1193 |-> FALSE, request |-> FALSE, send |-> FALSE]

\* reading the `provider` property of the key raises
Raises == [t |-> "raises"]

Providers ==
    {Null, BrowserProvider, JsonRpcProvider, Eip1193Provider, PlainProvider, Raises}

WrapperLayers == {<<>>, <<"NonceManager">>, <<"e">>, <<"NonceManager", "NonceManager">>}

\* key.signingKey: the key holds key material (ethers' Wallet)
Keys == [signingKey : BOOLEAN, provider : Providers, address : {"0xSigner"}]

Signers == [layers : WrapperLayers, key : Keys]

\* 'signer' in this.signer && this.signer.constructor.name === 'NonceManager'
\*   ? this.signer.signer : this.signer
getUnderlyingSigner(s) ==
    IF s.layers # <<>> /\ s.layers[1] = "NonceManager"
    THEN [s EXCEPT !.layers = Tail(s.layers)]
    ELSE s

\* 'signingKey' in obj: a wrapper has no such property
HasSigningKey(obj) == obj.layers = <<>> /\ obj.key.signingKey

\* obj.provider: a wrapper hands out its signer's provider
ProviderOf(obj) == obj.key.provider

\* isMetaMaskSigner(): TRUE for the MetaMask-friendly path.  The diagnostic
\* log at the top of the try block reads actualSigner.provider, so a provider
\* property that raises is caught there and the probe answers FALSE.
isMetaMaskSigner(s, winEthereum) ==
    LET actualSigner == getUnderlyingSigner(s)
        provider == ProviderOf(actualSigner)
    IN  IF provider = Raises THEN FALSE
        ELSE IF HasSigningKey(actualSigner) THEN FALSE
        ELSE IF provider = Null THEN FALSE
        ELSE IF provider.eip1193 THEN TRUE
        ELSE IF HasSigningKey(actualSigner) THEN FALSE
        ELSE IF winEthereum THEN TRUE
        ELSE IF (provider.send \/ provider.request) /\ ~HasSigningKey(actualSigner)
             THEN TRUE
        ELSE FALSE


(***************************************************************************)
(* Values, typed-data hashing and the two signing back ends.               *)
(***************************************************************************)

Bytes(b) == [b |-> b, t |-> "bytes"]

HexChars == <<"0", "1", "2", "3", "4", "5", "6", "7", "8", "9",
              "a", "b", "c", "d", "e", "f">>

RECURSIVE HexFrom(_, _)
HexFrom(b, i) ==
    IF i > Len(b) THEN <<>>
    ELSE <<HexChars[(b[i] \div 16) + 1], HexChars[(b[i] % 16) + 1]>> \o HexFrom(b, i + 1)

\* ethers.hexlify(item.data): "0x" and two lower-case hex digits per byte
Hexlify(v) == Str(<<"0", "x">> \o HexFrom(v.b, 1))

HexValue(c) == (CHOOSE n \in 1..16 : HexChars[n] = c) - 1

\* How a reader of a typed-data document reads a `bytes` field given as a
\* string: "0x" and an even number of hex digits.
ParseHex(chars) ==
    IF /\ Len(chars) >= 2 /\ chars[1] = "0" /\ chars[2] = "x"
       /\ Len(chars) % 2 = 0
       /\ \A i \in 3..Len(chars) : chars[i] \in Range(HexChars)
    THEN [b |-> [i \in 1..((Len(chars) - 2) \div 2) |->
                    16 * HexValue(chars[2 * i + 1]) + HexValue(chars[2 * i + 2])],
          ok |-> TRUE]
    ELSE [ok |-> FALSE]

\* The uint256 a value stands for: a bigint or number as it is (the values
\* TypedDataEncoder.hash is given); a string, which only the document sent
\* to the signing agent holds, as BigInt(string) reads it.
ReadUint(v) ==
    IF v.t = "string" THEN ParseDecimal(v.s)
    ELSE [d |-> v.d, neg |-> v.neg, ok |-> TRUE]

\* The bytes a value stands for: a Uint8Array as it is, a string as its hex
\* reading.
ReadBytes(v) ==
    IF v.t = "string" THEN ParseHex(v.s) ELSE [b |-> v.b, ok |-> TRUE]

IsArrayType(type) == type[Len(type)] = "[]"

RECURSIVE EncodeStruct(_, _), EncodeBase(_, _)
\* The value of a struct as the typed-data encoder reads it, field by field
\* in the order of the type's field list.
EncodeStruct(typeName, v) ==
    LET fields == EIP712_TYPES[typeName]
    IN  [i \in DOMAIN fields |->
            [name |-> fields[i].name,
             value |->
                IF IsArrayType(fields[i].type)
                THEN [k \in DOMAIN v[fields[i].name] |->
                         EncodeBase(fields[i].type[1], v[fields[i].name][k])]
                ELSE EncodeBase(fields[i].type[1], v[fields[i].name])]]

EncodeBase(base, v) ==
    IF base = "uint256" THEN ReadUint(v)
    ELSE IF base = "bytes" THEN ReadBytes(v)
    ELSE IF base \in TypeNames THEN EncodeStruct(base, v)
    ELSE v

RECURSIVE StructOk(_, _), BaseOk(_, _)
\* Whether the encoder accepts the value: every uint256 reads as an integer
\* that is not negative, every bytes field reads as bytes.
StructOk(typeName, v) ==
    LET fields == EIP712_TYPES[typeName]
    IN  \A i \in DOMAIN fields :
            IF IsArrayType(fields[i].type)
            THEN \A k \in DOMAIN v[fields[i].name] :
                    BaseOk(fields[i].type[1], v[fields[i].name][k])
            ELSE BaseOk(fields[i].type[1], v[fields[i].name])

BaseOk(base, v) ==
    IF base = "uint256" THEN ReadUint(v).ok /\ ~ReadUint(v).neg
    ELSE IF base = "bytes" THEN ReadBytes(v).ok
    ELSE IF base \in TypeNames THEN StructOk(base, v)
    ELSE TRUE

\* const types = { A: EIP712_TYPES.A, ... }: the keys in the order written
TypesObject(names) ==
    [i \in DOMAIN names |-> [name |-> names[i], fields |-> EIP712_TYPES[names[i]]]]

TypesMap(types) == {types[i] : i \in DOMAIN types}

\* The type of a types object that no other type of it refers to.
PrimaryOf(types) ==
    CHOOSE n \in {types[i].name : i \in DOMAIN types} :
        \A j \in DOMAIN types :
            \A f \in DOMAIN types[j].fields : types[j].fields[f].type[1] # n

\* The EIP-712 digest of (domain, types, primaryType, value).  The hash is
\* taken to be collision free: the digest is what was hashed.
Digest(dom, types, primaryType, v) ==
    [domain |-> dom, message |-> EncodeStruct(primaryType, v), types |-> TypesMap(types),
     primaryType |-> primaryType]

\* ethers.TypedDataEncoder.hash(domain, types, value): raises on a value out
\* of a field's range
TypedDataHash(dom, types, v) ==
    IF StructOk(PrimaryOf(types), v)
    THEN Return(Digest(dom, types, PrimaryOf(types), v))
    ELSE Throw("Error", "value out-of-bounds")

\* What a back end answers when asked: it signs, or it declines.
Responses == {"signed", "rejected"}

Signature(address, digest) == [by |-> address, over |-> digest]

NoResult == [kind |-> "none"]

\* actualSigner.signTypedData(domain, types, value) is called: the request
\* goes to the object the helper unwrapped, with the value as it is at the
\* call (signTypedData copies it before its first await).
SignTypedDataRequest(actualSigner, dom, types, v) ==
    [domain |-> dom, value |-> v, types |-> types,
     backend |-> "local", target |-> actualSigner]

\* The promise of signTypedData settles: wrappers forward the request to the
\* key; a key with key material signs whatever the encoder accepts.
SignTypedData(request, resp) ==
    LET hash == TypedDataHash(request.domain, request.types, request.value)
    IN  IF hash.kind = "throw" THEN hash
        ELSE IF request.target.key.signingKey \/ resp = "signed"
        THEN Return(Signature(request.target.key.address, hash.value))
        ELSE Throw("Error", "signing failed")

EIP712Domain ==
    [name |-> "EIP712Domain",
     fields |-> <<[name |-> "name", type |-> <<"string">>],
                  [name |-> "version", type |-> <<"string">>],
                  [name |-> "chainId", type |-> <<"uint256">>],
                  [name |-> "verifyingContract", type |-> <<"address">>]>>]

Dependencies == {"Cid", "PieceData"}

RECURSIVE FirstNonDependency(_, _)
\* for (const typeName of Object.keys(types)): the first that is neither Cid
\* nor PieceData, '' when there is none
FirstNonDependency(types, i) ==
    IF i > Len(types) THEN ""
    ELSE IF types[i].name \notin Dependencies THEN types[i].name
    ELSE FirstNonDependency(types, i + 1)

\* const typedData = { types: { EIP712Domain: [...], ...types }, primaryType,
\*                     domain: this.domain, message: value }
TypedData(dom, types, v) ==
    [domain |-> dom,
     message |-> v,
     types |-> <<EIP712Domain>> \o types,
     primaryType |-> FirstNonDependency(types, 1)]

\* JSON.stringify(typedData): the document as text
Stringify(doc) == [json |-> doc]

\* The external agent's answer to eth_signTypedData_v4: it reads the
\* document of the request, and signs the digest of what it read unless it
\* declines or cannot read the message.
AgentAnswer(request, resp) ==
    LET doc == request.params[2].json
        types == Tail(doc.types)
    IN  IF doc.primaryType \in TypeNames /\ StructOk(doc.primaryType, doc.message)
           /\ resp = "signed"
        THEN Return(Signature(request.params[1],
                              Digest(doc.domain, types, doc.primaryType, doc.message)))
        ELSE Throw("Error", "request rejected")

\* signWithMetaMask(types, value) up to its await of this.signer.getAddress():
\* the provider is read and must not be null.
ReadProvider(s) ==
    LET provider == ProviderOf(s)
    IN  IF provider = Raises THEN Throw("Error", "provider raised")
        ELSE IF provider = Null THEN Throw("Error", "No provider available")
        ELSE NoResult

\* signWithMetaMask(types, value) from the resolution of getAddress() on: the
\* document is built around `value` and serialized as `value` is then, and
\* the request goes through `request` of the EIP-1193 object when there is
\* one, else through provider.send; a provider with neither makes the call
\* of `send` raise a TypeError.
signWithMetaMask(s, dom, types, v) ==
    LET provider == ProviderOf(s)
        signerAddress == s.key.address
        typedData == TypedData(dom, types, v)
        request == [backend |-> "agent",
                    params |-> <<signerAddress, Stringify(typedData)>>,
                    via |-> IF provider.eip1193 \/ provider.request
                            THEN "request" ELSE "send",
                    method |-> "eth_signTypedData_v4"]
    IN  IF ~(provider.eip1193 \/ provider.request \/ provider.send)
        THEN [requests |-> <<>>,
              result |-> Throw("TypeError", "provider.send is not a function")]
        ELSE [requests |-> <<request>>, result |-> NoResult]


(***************************************************************************)
(* PDPAuthHelper: the four sign operations.                                *)
(* Each operator gives one part of what the operation builds from its     *)
(* arguments as they are when it reads them: "thrown", what its            *)
(* synchronous prelude throws (NoResult when nothing); "types";            *)
(* "agentValue", the value for the agent path; "localValue", the value     *)
(* for the local path; "signedValue", the value signedData is hashed       *)
(* from.  The operation reads its arguments at each of its steps between   *)
(* awaits; the state machine below asks for the part each step builds.     *)
(***************************************************************************)

signCreateDataSet(clientDataSetId, payee, metadata, part) ==
    CASE part = "thrown" -> NoResult
      [] part = "types" -> TypesObject(<<"CreateDataSet", "MetadataEntry">>)
      [] part = "agentValue" ->
            [clientDataSetId |-> IdToString(clientDataSetId),
             payee |-> payee, metadata |-> metadata]
      [] part = "localValue" ->
            [clientDataSetId |-> ToBigInt(clientDataSetId),
             payee |-> payee, metadata |-> metadata]
      [] part = "signedValue" ->
            [clientDataSetId |-> ToBigInt(clientDataSetId),
             payee |-> payee, metadata |-> metadata]

\* Piece identifiers.  asPieceCID lives in piece/index.ts: a string that is a
\* piece CID parses to the CID object with its bytes, any other gives null.
PieceCidStrings ==
    [bafkzcibcaaa |-> <<1, 85, 145, 32>>, bafkzcibcbbb |-> <<1, 85, 145, 255>>]

PieceCID(bytes) == [t |-> "cid", bytes |-> bytes]
Text(str) == [s |-> str, t |-> "text"]

asPieceCID(str) ==
    IF str \in DOMAIN PieceCidStrings THEN PieceCID(PieceCidStrings[str]) ELSE Null

\* WITH_CDN_METADATA = { key: METADATA_KEYS.WITH_CDN, value: '' }
WITH_CDN_METADATA == [value |-> "", key |-> "withCDN"]

\* Every piece given the CDN entry.
FillWithCDN(n) == [i \in 1..n |-> <<WITH_CDN_METADATA>>]

\* Array(pieceDataArray.length).fill([])
FillEmpty(n) == [i \in 1..n |-> <<>>]

\* A check that lets a metadata array longer than the piece list through.
ShorterOnly(given, n) == Len(given) # 0 /\ Len(given) < n

\* metadata.length !== 0 && metadata.length !== pieceDataArray.length
MetadataLengthMismatch(given, n) == Len(given) # 0 /\ Len(given) # n

RECURSIVE FormatPieces(_, _, _, _, _)
\* A loop that leaves out a string that is no piece CID and goes on.
SkipInvalid(pieceDataArray, metadata, i, formattedPieceData, pieceMetadata) ==
    IF i >= Len(pieceDataArray)
    THEN Return([formattedPieceData |-> formattedPieceData,
                 pieceMetadata |-> pieceMetadata])
    ELSE LET piece == pieceDataArray[i + 1]
             pieceCid == IF piece.t = "text" THEN asPieceCID(piece.s) ELSE piece
         IN  IF pieceCid = Null
             THEN FormatPieces(pieceDataArray, metadata, i + 1,
                               formattedPieceData, pieceMetadata)
             ELSE FormatPieces(pieceDataArray, metadata, i + 1,
                    Append(formattedPieceData, [data |-> Bytes(pieceCid.bytes)]),
                    Append(pieceMetadata,
                           [metadata |-> metadata[i + 1],
                            pieceIndex |-> Num(FALSE, NatDigits(i))]))

\* The loop over pieceDataArray from index i (0-based) on: it stops with an
\* error at the first string that is no piece CID.  Entry i of pieceMetadata
\* holds the caller's array metadata[i] itself, not a copy.
FormatPieces(pieceDataArray, metadata, i, formattedPieceData, pieceMetadata) ==
    IF i >= Len(pieceDataArray)
    THEN Return([formattedPieceData |-> formattedPieceData,
                 pieceMetadata |-> pieceMetadata])
    ELSE LET piece == pieceDataArray[i + 1]
             pieceCid == IF piece.t = "text" THEN asPieceCID(piece.s) ELSE piece
         IN  IF pieceCid = Null THEN Throw("Error", "Invalid PieceCID: null")
             ELSE FormatPieces(pieceDataArray, metadata, i + 1,
                    Append(formattedPieceData, [data |-> Bytes(pieceCid.bytes)]),
                    Append(pieceMetadata,
                           [metadata |-> metadata[i + 1],
                            pieceIndex |-> Num(FALSE, NatDigits(i))]))

\* formattedPieceData.map((item) => ({ data: ethers.hexlify(item.data) }))
HexlifyAll(formattedPieceData) ==
    [i \in DOMAIN formattedPieceData |-> [data |-> Hexlify(formattedPieceData[i].data)]]

\* A parameter left out takes its default, [].
NotSupplied == [supplied |-> FALSE]
Supplied(v) == [value |-> v, supplied |-> TRUE]
DefaultEmpty(arg) == IF arg.supplied THEN arg.value ELSE <<>>

signAddPieces(clientDataSetId, firstPieceId, pieceDataArray, metadataArg, part) ==
    LET given == DefaultEmpty(metadataArg)
        metadata == IF Len(given) = 0 THEN FillEmpty(Len(pieceDataArray)) ELSE given
    IN  IF MetadataLengthMismatch(given, Len(pieceDataArray))
        THEN Throw("Error", "metadata length must match pieceDataArray length")
        ELSE
        LET built == FormatPieces(pieceDataArray, metadata, 0, <<>>, <<>>) IN
        IF built.kind = "throw" THEN built
        ELSE
        LET formattedPieceData == built.value.formattedPieceData
            pieceMetadata == built.value.pieceMetadata
        IN  CASE part = "thrown" -> NoResult
              [] part = "types" ->
                    TypesObject(<<"AddPieces", "Cid", "PieceMetadata", "MetadataEntry">>)
              [] part = "agentValue" ->
                    [clientDataSetId |-> IdToString(clientDataSetId),
                     pieceMetadata |-> pieceMetadata,
                     firstAdded |-> IdToString(firstPieceId),
                     pieceData |-> HexlifyAll(formattedPieceData)]
              [] part = "localValue" ->
                    [clientDataSetId |-> ToBigInt(clientDataSetId),
                     pieceMetadata |-> pieceMetadata,
                     firstAdded |-> ToBigInt(firstPieceId),
                     pieceData |-> formattedPieceData]
              [] part = "signedValue" ->
                    [clientDataSetId |-> ToBigInt(clientDataSetId),
                     pieceMetadata |-> pieceMetadata,
                     firstAdded |-> ToBigInt(firstPieceId),
                     pieceData |-> formattedPieceData]

signSchedulePieceRemovals(clientDataSetId, pieceIds, part) ==
    LET pieceIdsBigInt == [i \in DOMAIN pieceIds |-> ToBigInt(pieceIds[i])]
    IN  CASE part = "thrown" -> NoResult
          [] part = "types" -> TypesObject(<<"SchedulePieceRemovals">>)
          [] part = "agentValue" ->
                [clientDataSetId |-> IdToString(clientDataSetId),
                 pieceIds |-> [i \in DOMAIN pieceIdsBigInt |->
                                  BigIntToString(pieceIdsBigInt[i])]]
          [] part = "localValue" ->
                [clientDataSetId |-> ToBigInt(clientDataSetId),
                 pieceIds |-> pieceIdsBigInt]
          [] part = "signedValue" ->
                [clientDataSetId |-> ToBigInt(clientDataSetId),
                 pieceIds |-> pieceIdsBigInt]

signDeleteDataSet(clientDataSetId, part) ==
    CASE part = "thrown" -> NoResult
      [] part = "types" -> TypesObject(<<"DeleteDataSet">>)
      [] part = "agentValue" -> [clientDataSetId |-> IdToString(clientDataSetId)]
      [] part = "localValue" -> [clientDataSetId |-> ToBigInt(clientDataSetId)]
      [] part = "signedValue" -> [clientDataSetId |-> ToBigInt(clientDataSetId)]

\* The tail common to the four operations, run when the signature has
\* arrived: the signature is parsed, then signedData is hashed from the
\* bigint form of the arguments as they are by then.
Finish(signature, hash) ==
    IF signature.kind = "throw" THEN signature
    ELSE IF hash.kind = "throw" THEN hash
    ELSE Return([signature |-> signature.value, signedData |-> hash.value])


(***************************************************************************)
(* session/key.ts: SessionKey.  Two revisions of the class are modelled:   *)
(* one whose fetchExpiries() refreshes the public field `expiries`, and    *)
(* the later one whose fetchExpiries(permissions) returns a fresh object.  *)
(***************************************************************************)

\* ethers.id(text): the keccak256 hash of the text, as a hex string.  The
\* hash is kept symbolic; distinct texts have distinct hashes.
Id(text) == "keccak256(" \o text \o ")"

CREATE_DATA_SET_TYPEHASH == Id(getEIP712TypeString("CreateDataSet").value)
ADD_PIECES_TYPEHASH == Id(getEIP712TypeString("AddPieces").value)
SCHEDULE_PIECE_REMOVALS_TYPEHASH == Id(getEIP712TypeString("SchedulePieceRemovals").value)
DELETE_DATA_SET_TYPEHASH == Id(getEIP712TypeString("DeleteDataSet").value)

PDP_PERMISSIONS ==
    <<CREATE_DATA_SET_TYPEHASH, ADD_PIECES_TYPEHASH,
      SCHEDULE_PIECE_REMOVALS_TYPEHASH, DELETE_DATA_SET_TYPEHASH>>

\* A JavaScript object used as a string-keyed record is a function from its
\* own keys.  obj[key] = value:
Put(obj, key, value) ==
    [k \in DOMAIN obj \cup {key} |-> IF k = key THEN value ELSE obj[k]]

\* The object literal of the constructor: its property names are the
\* identifiers as written, not the values of the constants so named.
ConstructedExpiries ==
    [k \in {"CREATE_DATA_SET_TYPEHASH", "ADD_PIECES_TYPEHASH",
            "SCHEDULE_PIECE_REMOVALS_TYPEHASH", "DELETE_DATA_SET_TYPEHASH"} |-> Null]

\* What the three getAddress() calls resolve to.
AddressOf(who) ==
    CASE who = "owner" -> "0xOwner"
      [] who = "signer" -> "0xSession"
      [] who = "registry" -> "0xRegistry"

\* registryInterface.encodeFunctionData(fn, args), kept symbolic
encodeFunctionData(fn, args) == [args |-> args, fn |-> fn]

\* A batch with the sub-calls in the opposite order.
BuildCallsReversed(permissions, ownerAddress, signerAddress, registryAddress) ==
    [i \in DOMAIN permissions |->
        [target |-> registryAddress,
         allowFailure |-> TRUE,
         callData |-> [args |-> <<ownerAddress, signerAddress,
                                  permissions[Len(permissions) + 1 - i]>>,
                       fn |-> "authorizationExpiry"]]]

\* The multicall batch: one sub-call per permission, in order.
BuildCalls(permissions, ownerAddress, signerAddress, registryAddress) ==
    [i \in DOMAIN permissions |->
        [target |-> registryAddress,
         allowFailure |-> TRUE,
         callData |-> encodeFunctionData("authorizationExpiry",
                         <<ownerAddress, signerAddress, permissions[i]>>)]]

\* Return data of a sub-call: one 32-byte word holding a uint256, or nothing.
Word(t) == [bytes |-> 32, uint256 |-> t]
EmptyData == [bytes |-> 0]

\* registryInterface.decodeFunctionResult('authorizationExpiry', data)[0]
decodeFunctionResult(data) ==
    IF data.bytes = 32
    THEN Return(data.uint256)
    ELSE Throw("BAD_DATA", "could not decode result data")

\* PDP_PERMISSIONS[i], with i counted from 1; a property key that is
\* undefined is the string "undefined".
KeyAt(i) == IF i \in DOMAIN PDP_PERMISSIONS THEN PDP_PERMISSIONS[i] ELSE "undefined"

\* A loop that is cut off after the one entry it starts at.
StoreOneEntry(obj, results, i, n) ==
    IF i > n THEN [expiries |-> obj, error |-> NoResult]
    ELSE LET decoded == decodeFunctionResult(results[i].returnData)
         IN  IF decoded.kind = "throw"
             THEN [expiries |-> obj, error |-> decoded]
             ELSE [expiries |-> Put(obj, KeyAt(i), decoded.value), error |-> NoResult]

\* for (let i = ...; i < n; i++) obj[PDP_PERMISSIONS[i]] = decode(results[i].returnData)
\* The loop stops at the first result that does not decode; what it has
\* assigned by then stays assigned.
RECURSIVE StoreFrom(_, _, _, _)
StoreFrom(obj, results, i, n) ==
    IF i > n THEN [expiries |-> obj, error |-> NoResult]
    ELSE LET decoded == decodeFunctionResult(results[i].returnData)
         IN  IF decoded.kind = "throw"
             THEN [expiries |-> obj, error |-> decoded]
             ELSE StoreFrom(Put(obj, KeyAt(i), decoded.value), results, i + 1, n)

\* A write that names the owner where the delegated signer belongs.
LoginWriteForOwner(signerAddress, expiry, permissions) ==
    [args |-> [signer |-> AddressOf("owner"), permissions |-> permissions,
               expiry |-> expiry], method |-> "login", to |-> AddressOf("registry"),
     from |-> AddressOf("owner")]

\* this._registry.login(signerAddress, expiry, permissions): the transaction
\* request handed to the owner's signer
LoginWrite(signerAddress, expiry, permissions) ==
    [args |-> [signer |-> signerAddress, permissions |-> permissions, expiry |-> expiry], method |-> "login", to |-> AddressOf("registry"),
     from |-> AddressOf("owner")]

\* The call sites that use the SessionKey, and where each stands in its call.
Sites == {1, 2}

LookupNames == {"owner", "signer", "registry"}

NoLookups == [who \in LookupNames |-> "none"]

Idle ==
    [result |-> NoResult, permissions |-> <<>>, results |-> <<>>, expiry |-> Null,
     op |-> "none", pc |-> "idle", lookups |-> NoLookups, reads |-> <<>>,
     writes |-> <<>>, answered |-> FALSE, readAfter |-> {}, storedAfter |-> {}]

(***************************************************************************)
(* The state machine: one helper instance and its caller.                  *)
(***************************************************************************)

\* The longest piece list, metadata array and piece id list a call is given.
MaxPieces == 2

SeqsUpTo(S, n) == UNION {[1..k -> S] : k \in 0..n}

\* number | bigint identifiers
ClientDataSetIds ==
    {Num(FALSE, <<0>>), Num(FALSE, TwoPow64), Num(FALSE, TenPow21), Num(TRUE, <<1>>),
     Big(FALSE, <<5>>), Big(FALSE, TwoPow64)}

\* (clientDataSetId, firstPieceId) of signAddPieces
AddPiecesIds ==
    {<<Num(FALSE, TwoPow64), Num(FALSE, <<1>>)>>,
     <<Big(FALSE, <<5>>), Big(TRUE, <<2>>)>>}

PieceIds == {Num(FALSE, <<1>>), Big(FALSE, TwoPow64), Num(TRUE, <<1>>)}

\* PieceCID[] | string[] elements: a parsed CID, a string that is a piece
\* CID, a string that is none
Pieces == {PieceCID(<<1, 85, 145, 32>>), Text("bafkzcibcbbb"), Text("not-a-piece-cid")}

MetadataLists == {<<>>, <<WITH_CDN_METADATA>>}

Payees == {"0xPayee"}

RootTypeInputs ==
    TypeNames \cup {"NonExistentType", "PieceData", "uint256", "toString", "constructor",
                    "isPrototypeOf", "__lookupGetter__"}

\* Identifiers of calls that overlap on one helper
OverlapIds == {Big(FALSE, <<5>>), Big(FALSE, <<7>>)}

\* The signers a helper is built around when its operations are run on the
\* full range of arguments: a wallet, bare and inside a NonceManager, and
\* keyless signers on each kind of provider.
SampleSigners ==
    {s \in Signers :
        \/ /\ s.layers = <<>>
           /\ s.key.provider # Raises
           /\ s.key.signingKey => s.key.provider = JsonRpcProvider
        \/ /\ s.layers = <<"NonceManager">>
           /\ s.key.signingKey
           /\ s.key.provider = JsonRpcProvider}

\* The entry a caller pushes onto a metadata array it handed to a call.
LateEntry == [value |-> "1", key |-> "late"]

\* How often a caller changes the metadata array of one pending call.
MaxMutations == 1

\* The calls in flight on the helper: each slot holds one call, from the
\* moment it is made until its caller has taken the result.
Slots == {1, 2}

\* `args` are the arguments as passed, `now` the same objects as they are
\* now; `win` is window.ethereum as the probe saw it, `path` what it chose.
NoCall ==
    [args |-> Null, requests |-> <<>>, result |-> NoResult, op |-> "none", pc |-> "idle",
     now |-> Null, win |-> FALSE, path |-> "none", mutations |-> 0]

\* new PDPAuthHelper(serviceContractAddress, signer, chainId)
Construct(signers) ==
    /\ signer \in signers
    /\ domain = [name |-> "FilecoinWarmStorageService", version |-> "1",
                 chainId |-> 314159, verifyingContract |-> "0xWarmStorage"]
    /\ windowEthereum \in BOOLEAN
    /\ calls = [c \in Slots |-> NoCall]
    /\ probed = "none"
    /\ expiries = ConstructedExpiries
    /\ caller = [s \in Sites |-> Idle]

Init == Construct(SampleSigners)

\* The part the operation builds from the arguments `a`.
Built(op, a, part) ==
    CASE op = "signCreateDataSet" ->
            signCreateDataSet(a.clientDataSetId, a.payee, a.metadata, part)
      [] op = "signAddPieces" ->
            signAddPieces(a.clientDataSetId, a.firstPieceId, a.pieceDataArray,
                          a.metadata, part)
      [] op = "signSchedulePieceRemovals" ->
            signSchedulePieceRemovals(a.clientDataSetId, a.pieceIds, part)
      [] op = "signDeleteDataSet" ->
            signDeleteDataSet(a.clientDataSetId, part)

\* The call in slot c settles with `res`.
Settled(c, res) == [calls[c] EXCEPT !.pc = "settled", !.result = res]

\* getEIP712TypeString(rootType) has no await: it returns or throws at once.
CallGetEIP712TypeString(c) ==
    /\ calls[c].pc = "idle"
    /\ \E rootType \in RootTypeInputs :
        calls' = [calls EXCEPT ![c] =
                    [NoCall EXCEPT !.pc = "settled", !.op = "getEIP712TypeString",
                                   !.args = [rootType |-> rootType],
                                   !.now = [rootType |-> rootType],
                                   !.result = getEIP712TypeString(rootType)]]
    /\ UNCHANGED <<signer, domain, windowEthereum, probed, expiries, caller>>

\* A sign operation is called: it runs up to its first await.  What comes
\* before the probe can throw; else isMetaMaskSigner(), which has no await
\* of its own, runs to its end on window.ethereum as it is now, and the
\* operation waits for the promise of its answer.
\* The call record of `op` entered with `args`: settled at once with what
\* the synchronous prelude throws, else waiting for the probe, whose answer
\* `chosen` is fixed here.
Entered(op, args, thrown, chosen) ==
    IF thrown # NoResult
    THEN [NoCall EXCEPT !.pc = "settled", !.op = op, !.args = args,
                        !.now = args, !.result = thrown]
    ELSE [NoCall EXCEPT !.pc = "probed", !.op = op, !.args = args,
                        !.now = args, !.win = windowEthereum, !.path = chosen]

\* A sign operation up to `await this.isMetaMaskSigner()`.  The probe has no
\* await inside: it reads window.ethereum as it is now.
Start(c, op, args) ==
    /\ calls[c].pc = "idle"
    /\ calls' = [calls EXCEPT ![c] =
          Entered(op, args, Built(op, args, "thrown"),
                  IF isMetaMaskSigner(signer, windowEthereum)
                  THEN "agent" ELSE "local")]
    /\ probed' = IF calls'[c].pc = "settled" THEN probed ELSE calls'[c].path
    /\ UNCHANGED <<signer, domain, windowEthereum, expiries, caller>>

CallSignCreateDataSet(c) ==
    \E clientDataSetId \in ClientDataSetIds, payee \in Payees,
       metadata \in MetadataLists :
        Start(c, "signCreateDataSet",
              [clientDataSetId |-> clientDataSetId, payee |-> payee,
               metadata |-> metadata])

CallSignAddPieces(c) ==
    \E ids \in AddPiecesIds, pieceDataArray \in SeqsUpTo(Pieces, MaxPieces),
       metadata \in {Supplied(m) : m \in SeqsUpTo(MetadataLists, MaxPieces)}
                     \cup {NotSupplied} :
        Start(c, "signAddPieces",
              [clientDataSetId |-> ids[1], metadata |-> metadata,
               pieceDataArray |-> pieceDataArray, firstPieceId |-> ids[2]])

CallSignSchedulePieceRemovals(c) ==
    \E clientDataSetId \in ClientDataSetIds,
       pieceIds \in SeqsUpTo(PieceIds, MaxPieces) :
        Start(c, "signSchedulePieceRemovals",
              [clientDataSetId |-> clientDataSetId, pieceIds |-> pieceIds])

CallSignDeleteDataSet(c, clientDataSetId) ==
    Start(c, "signDeleteDataSet", [clientDataSetId |-> clientDataSetId])

\* The call in slot c once the probe has settled: on the agent path
\* signWithMetaMask has read the provider (`thrown` when that fails) and
\* waits for getAddress(); on the local path `request` is out.
AfterProbe(c, thrown, request) ==
    IF calls[c].path = "agent"
    THEN IF thrown # NoResult THEN Settled(c, thrown)
         ELSE [calls[c] EXCEPT !.pc = "address"]
    ELSE [calls[c] EXCEPT !.pc = "requested", !.requests = <<request>>]

\* `await this.isMetaMaskSigner()` settles.  On the agent path the value is
\* built and signWithMetaMask runs up to its await of getAddress(); on the
\* local path the value is built and handed to signTypedData.
ProbeSettles(c) ==
    /\ calls[c].pc = "probed"
    /\ calls' = [calls EXCEPT ![c] =
          AfterProbe(c, ReadProvider(signer),
                     SignTypedDataRequest(getUnderlyingSigner(signer), domain,
                                          Built(calls[c].op, calls[c].now, "types"),
                                          Built(calls[c].op, calls[c].now, "localValue")))]
    /\ UNCHANGED <<signer, domain, windowEthereum, probed, expiries, caller>>

\* The call in slot c once signWithMetaMask has gone on to `sent`.
AfterAddress(c, sent) ==
    IF sent.result # NoResult THEN Settled(c, sent.result)
    ELSE [calls[c] EXCEPT !.pc = "requested", !.requests = sent.requests]

\* `await this.signer.getAddress()` settles: the document is serialized and
\* the request put to the agent.
AddressSettles(c) ==
    /\ calls[c].pc = "address"
    /\ calls' = [calls EXCEPT ![c] =
          AfterAddress(c, signWithMetaMask(signer, domain,
                                           Built(calls[c].op, calls[c].now, "types"),
                                           Built(calls[c].op, calls[c].now, "agentValue")))]
    /\ UNCHANGED <<signer, domain, windowEthereum, probed, expiries, caller>>

\* What the back end that got `request` answers.
Answer(request, resp) ==
    IF request.backend = "local" THEN SignTypedData(request, resp)
    ELSE AgentAnswer(request, resp)

\* The back end answers the request: the operation parses the signature and
\* hashes signedData from its arguments as they are now.
RequestSettles(c) ==
    /\ calls[c].pc = "requested"
    /\ \E resp \in Responses :
        calls' = [calls EXCEPT ![c] =
           Settled(c, Finish(Answer(calls[c].requests[1], resp),
                             TypedDataHash(domain,
                                           Built(calls[c].op, calls[c].now, "types"),
                                           Built(calls[c].op, calls[c].now, "signedValue"))))]
    /\ UNCHANGED <<signer, domain, windowEthereum, probed, expiries, caller>>

\* The call has a metadata array that its caller can reach.
HoldsCallersMetadata(c) ==
    \/ calls[c].op = "signCreateDataSet"
    \/ /\ calls[c].op = "signAddPieces"
       /\ calls[c].args.metadata.supplied
       /\ Len(calls[c].args.metadata.value) > 0

\* While the call is pending its caller pushes an entry onto the metadata
\* array it passed: `metadata` of signCreateDataSet, `metadata[0]` of
\* signAddPieces.  The operation holds the array itself.
MutateMetadata(c) ==
    /\ calls[c].pc \in {"probed", "address", "requested"}
    /\ HoldsCallersMetadata(c)
    /\ calls[c].mutations < MaxMutations
    /\ calls' = [calls EXCEPT ![c] =
          [@ EXCEPT !.mutations = @ + 1,
                    !.now = IF calls[c].op = "signCreateDataSet"
                            THEN [@ EXCEPT !.metadata = Append(@, LateEntry)]
                            ELSE [@ EXCEPT !.metadata.value[1] = Append(@, LateEntry)]]]
    /\ UNCHANGED <<signer, domain, windowEthereum, probed, expiries, caller>>

\* The caller takes the settled result; the slot is free for the next call.
Resume(c) ==
    /\ calls[c].pc = "settled"
    /\ calls' = [calls EXCEPT ![c] = NoCall]
    /\ UNCHANGED <<signer, domain, windowEthereum, probed, expiries, caller>>

\* An injected wallet (window.ethereum) appears or disappears, between calls
\* or while calls are pending.
EnvironmentChange ==
    /\ windowEthereum' = ~windowEthereum
    /\ UNCHANGED <<signer, domain, calls, probed, expiries, caller>>

\* One caller that awaits each call before it makes the next, with the full
\* range of arguments.
Next ==
    \/ CallGetEIP712TypeString(1)
    \/ CallSignCreateDataSet(1)
    \/ CallSignAddPieces(1)
    \/ CallSignSchedulePieceRemovals(1)
    \/ \E clientDataSetId \in ClientDataSetIds : CallSignDeleteDataSet(1, clientDataSetId)
    \/ ProbeSettles(1)
    \/ AddressSettles(1)
    \/ RequestSettles(1)
    \/ MutateMetadata(1)
    \/ Resume(1)
    \/ EnvironmentChange

Spec == Init /\ [][Next]_vars

\* Callers that do not await: calls of signDeleteDataSet overlap on one
\* helper, around any signer.  A new call takes the lowest free slot.
ConcurrentInit == Construct(Signers)

ConcurrentNext ==
    \/ \E c \in Slots, clientDataSetId \in OverlapIds :
          /\ \A d \in Slots : d < c => calls[d].pc # "idle"
          /\ CallSignDeleteDataSet(c, clientDataSetId)
    \/ \E c \in Slots : ProbeSettles(c)
    \/ \E c \in Slots : AddressSettles(c)
    \/ \E c \in Slots : RequestSettles(c)
    \/ \E c \in Slots : Resume(c)
    \/ EnvironmentChange

ConcurrentSpec == ConcurrentInit /\ [][ConcurrentNext]_vars


(***************************************************************************)
(* The state machine of a SessionKey and the call sites that use it.       *)
(* Every await is a point where other call sites may run: a call advances  *)
(* by one step each time a promise it awaits settles.                      *)
(***************************************************************************)

\* The longest permission list a call site passes (besides the default list).
MaxPermissions == 3

\* Permission lists: the four kinds, any subset in any order
PermissionLists ==
    {p \in SeqsUpTo(Range(PDP_PERMISSIONS), MaxPermissions) :
        \A i, j \in DOMAIN p : i # j => p[i] # p[j]}
    \cup {PDP_PERMISSIONS}

\* Expiry timestamps held by the registry (uint256 seconds; 0: not authorized)
Stamps == {Big(FALSE, <<0>>), Big(FALSE, <<9>>)}

\* One entry of what aggregate3 returns: the sub-call succeeded and returned
\* a timestamp, or it failed and returned no data, or it succeeded and
\* returned no data (a call to an address that holds no code).
SubResults ==
    {[returnData |-> Word(t), success |-> TRUE] : t \in Stamps}
    \cup {[returnData |-> EmptyData, success |-> ok] : ok \in BOOLEAN}

BatchResults(n) == [1..n -> SubResults]

\* Batches with at most one sub-call that returned no data, the others all
\* returning the same timestamp (a login gives all its permissions one expiry).
UniformBatchResults(n) ==
    {r \in BatchResults(n) :
        /\ Cardinality({i \in 1..n : r[i].returnData = EmptyData}) <= 1
        /\ \A i, j \in 1..n :
              (r[i].returnData # EmptyData /\ r[j].returnData # EmptyData)
                  => r[i].returnData = r[j].returnData}

helperVars == <<signer, domain, windowEthereum, calls, probed>>

\* No PDPAuthHelper call takes part in the SessionKey's behaviours.
HelperAtRest ==
    /\ signer = [layers |-> <<>>,
                 key |-> [signingKey |-> TRUE, provider |-> Null, address |-> "0xSigner"]]
    /\ domain = [name |-> "FilecoinWarmStorageService", version |-> "1",
                 chainId |-> 314159, verifyingContract |-> "0xWarmStorage"]
    /\ windowEthereum = FALSE
    /\ calls = [c \in Slots |-> NoCall]
    /\ probed = "none"

\* new SessionKey(provider, registry, signer, owner)
SessionInit ==
    /\ HelperAtRest
    /\ expiries = ConstructedExpiries
    /\ caller = [s \in Sites |-> Idle]

\* The call's promise settles with `res`.
SettleCall(s, res) == [caller[s] EXCEPT !.pc = "settled", !.result = res]

\* fetchExpiries(permissions) is called: it runs up to its first await,
\* the network lookup.
StartFetchExpiries(s, permissions) ==
    /\ caller[s].pc = "idle"
    /\ caller' = [caller EXCEPT ![s] =
                    [Idle EXCEPT !.op = "fetchExpiries", !.pc = "network",
                                 !.permissions = permissions]]
    /\ UNCHANGED <<helperVars, expiries>>

\* await getFilecoinNetworkType(this._provider) settles.  On success the
\* three address lookups are started together (Promise.all).
NetworkLookup(s) ==
    /\ caller[s].pc = "network"
    /\ \E ok \in BOOLEAN :
        caller' = [caller EXCEPT ![s] =
            IF ok
            THEN [@ EXCEPT !.pc = "addresses",
                           !.lookups = [who \in LookupNames |-> "pending"]]
            ELSE SettleCall(s, Throw("Error", "Unsupported network"))]
    /\ UNCHANGED <<helperVars, expiries>>

\* One of the three getAddress() promises settles.  Promise.all rejects at
\* the first failure; when the last lookup resolves, the batch is built
\* and the one batched read is issued.
AddressLookup(s) ==
    /\ caller[s].pc = "addresses"
    /\ \E who \in LookupNames, ok \in BOOLEAN :
        /\ caller[s].lookups[who] = "pending"
        /\ LET lookups == [caller[s].lookups EXCEPT ![who] = IF ok THEN "resolved" ELSE "failed"]
           IN  caller' = [caller EXCEPT ![s] =
                 IF ~ok
                 THEN [SettleCall(s, Throw("Error", "getAddress failed"))
                          EXCEPT !.lookups = lookups]
                 ELSE IF \A w \in LookupNames : lookups[w] = "resolved"
                 THEN [@ EXCEPT !.pc = "reading",
                                !.lookups = lookups,
                                !.reads = Append(@,
                                    BuildCalls(caller[s].permissions, AddressOf("owner"),
                                               AddressOf("signer"), AddressOf("registry"))),
                                !.readAfter = {o \in Sites : caller[o].pc = "reading"}]
                 ELSE [@ EXCEPT !.lookups = lookups]]
    /\ UNCHANGED <<helperVars, expiries>>

\* await multicall.aggregate3.staticCall(calls) settles, in the revision
\* that returns the expiries: the results are decoded into a fresh object.
ReadResponse(s) ==
    /\ caller[s].pc = "reading"
    /\ \/ caller' = [caller EXCEPT ![s] =
                        SettleCall(s, Throw("CALL_EXCEPTION", "missing revert data"))]
       \/ \E results \in BatchResults(Len(caller[s].permissions)) :
            LET stored == StoreFrom([k \in {} |-> Null], results, 1, Len(caller[s].permissions))
            IN  caller' = [caller EXCEPT ![s] =
                    [SettleCall(s, IF stored.error = NoResult
                                   THEN Return(stored.expiries) ELSE stored.error)
                        EXCEPT !.results = results, !.answered = TRUE]]
    /\ UNCHANGED <<helperVars, expiries>>

\* The same in the revision that caches the expiries: the results are
\* decoded into this.expiries, entry by entry, without an await in between.
ReadResponseCached(s) ==
    /\ caller[s].pc = "reading"
    /\ \/ /\ caller' = [caller EXCEPT ![s] =
                          SettleCall(s, Throw("CALL_EXCEPTION", "missing revert data"))]
          /\ UNCHANGED expiries
       \/ \E results \in UniformBatchResults(Len(PDP_PERMISSIONS)) :
            LET stored == StoreFrom(expiries, results, 1, Len(PDP_PERMISSIONS))
            IN  /\ expiries' = stored.expiries
                /\ caller' = [caller EXCEPT ![s] =
                      [SettleCall(s, IF stored.error = NoResult
                                     THEN Return(Null) ELSE stored.error)
                          EXCEPT !.results = results,
                                 !.answered = TRUE,
                                 !.storedAfter =
                                    {o \in Sites : /\ caller[o].pc = "settled"
                                                   /\ caller[o].answered}]]
    /\ UNCHANGED helperVars

\* login(expiry, permissions) is called: it runs up to its await of
\* this._signer.getAddress().
StartLogin(s, expiry, permissions) ==
    /\ caller[s].pc = "idle"
    /\ caller' = [caller EXCEPT ![s] =
                    [Idle EXCEPT !.op = "login", !.pc = "loginAddress",
                                 !.expiry = expiry, !.permissions = permissions,
                                 !.lookups = [NoLookups EXCEPT !["signer"] = "pending"]]]
    /\ UNCHANGED <<helperVars, expiries>>

\* await this._signer.getAddress() settles; on success the write goes out.
LoginAddress(s) ==
    /\ caller[s].pc = "loginAddress"
    /\ \E ok \in BOOLEAN :
        caller' = [caller EXCEPT ![s] =
            IF ok
            THEN [@ EXCEPT !.pc = "writing",
                           !.lookups["signer"] = "resolved",
                           !.writes = Append(@, LoginWrite(AddressOf("signer"),
                                                  caller[s].expiry, caller[s].permissions))]
            ELSE [SettleCall(s, Throw("Error", "getAddress failed"))
                     EXCEPT !.lookups["signer"] = "failed"]]
    /\ UNCHANGED <<helperVars, expiries>>

\* await this._registry.login(...) settles.
LoginResponse(s) ==
    /\ caller[s].pc = "writing"
    /\ \E ok \in BOOLEAN :
        caller' = [caller EXCEPT ![s] =
            SettleCall(s, IF ok THEN Return(Null)
                          ELSE Throw("CALL_EXCEPTION", "transaction failed"))]
    /\ UNCHANGED <<helperVars, expiries>>

\* The call site takes the settled result and is free for its next call.
ReturnToCaller(s) ==
    /\ caller[s].pc = "settled"
    /\ caller' = [caller EXCEPT ![s] = Idle]
    /\ UNCHANGED <<helperVars, expiries>>

\* One call site using the revision whose fetchExpiries returns the expiries.
SessionNext ==
    \/ \E permissions \in PermissionLists : StartFetchExpiries(1, permissions)
    \/ \E s \in Sites : NetworkLookup(s)
    \/ \E s \in Sites : AddressLookup(s)
    \/ \E s \in Sites : ReadResponse(s)
    \/ \E s \in Sites : ReturnToCaller(s)

SessionSpec == SessionInit /\ [][SessionNext]_vars

\* Two call sites sharing a SessionKey of the revision that caches expiries.
CachedNext ==
    \/ \E s \in Sites : StartFetchExpiries(s, PDP_PERMISSIONS)
    \/ \E s \in Sites : NetworkLookup(s)
    \/ \E s \in Sites : AddressLookup(s)
    \/ \E s \in Sites : ReadResponseCached(s)
    \/ \E s \in Sites, expiry \in Stamps,
          permissions \in {PDP_PERMISSIONS, <<ADD_PIECES_TYPEHASH>>} :
            StartLogin(s, expiry, permissions)
    \/ \E s \in Sites : LoginAddress(s)
    \/ \E s \in Sites : LoginResponse(s)
    \/ \E s \in Sites : ReturnToCaller(s)

CachedSpec == SessionInit /\ [][CachedNext]_vars


(***************************************************************************)
(* Properties of getEIP712TypeString.                                      *)
(***************************************************************************)

TypeStringCall(c) == calls[c].pc = "settled" /\ calls[c].op = "getEIP712TypeString"

\* The type strings of the four operations: AddPieces and DeleteDataSet as
\* test/eip712.test.ts expects them, all four as session/key.ts spells them
\* out for the permission type hashes.
CanonicalTypeStrings ==
    [CreateDataSet |->
        "CreateDataSet(uint256 clientDataSetId,address payee,MetadataEntry[] metadata)MetadataEntry(string key,string value)",
     AddPieces |->
        "AddPieces(uint256 clientDataSetId,uint256 firstAdded,Cid[] pieceData,PieceMetadata[] pieceMetadata)Cid(bytes data)MetadataEntry(string key,string value)PieceMetadata(uint256 pieceIndex,MetadataEntry[] metadata)",
     SchedulePieceRemovals |->
        "SchedulePieceRemovals(uint256 clientDataSetId,uint256[] pieceIds)",
     DeleteDataSet |->
        "DeleteDataSet(uint256 clientDataSetId)"]

\* C2: for each of the four operation root types getEIP712TypeString returns
\* exactly the canonical string (DeleteDataSet with nothing appended).
TypeStringsCanonical ==
    \A c \in Slots :
    (TypeStringCall(c) /\ calls[c].args.rootType \in DOMAIN CanonicalTypeStrings)
        => calls[c].result = Return(CanonicalTypeStrings[calls[c].args.rootType])

\* A call for AddPieces, whose dependencies the sort reorders, has returned.
AddPiecesStringReturned ==
    \E c \in Slots :
    /\ TypeStringCall(c)
    /\ calls[c].args.rootType = "AddPieces"
    /\ calls[c].result.kind = "return"

\* C3: a root type name that is no key of the registry makes
\* getEIP712TypeString fail with the error that names the type; no string is
\* returned.
UnknownRootNamed ==
    \A c \in Slots :
    (TypeStringCall(c) /\ calls[c].args.rootType \notin TypeNames)
        => /\ calls[c].result.kind = "throw"
           /\ calls[c].result.message
                = "Type '" \o calls[c].args.rootType \o "' does not exist in EIP712_TYPES"

\* The registry types a type's fields refer to, array suffix stripped.
ReferredTo(typeName) ==
    {EIP712_TYPES[typeName][i].type[1] : i \in DOMAIN EIP712_TYPES[typeName]}
        \cap TypeNames

RECURSIVE ReachableFrom(_)
\* The least set of types that holds `reached` and every type its members
\* refer to.
ReachableFrom(reached) ==
    LET more == reached \cup UNION {ReferredTo(n) : n \in reached}
    IN  IF more = reached THEN reached ELSE ReachableFrom(more)

\* The registry's type names in ascending order.
AscendingTypeNames ==
    <<"AddPieces", "Cid", "CreateDataSet", "DeleteDataSet", "MetadataEntry",
      "PieceMetadata", "SchedulePieceRemovals">>

RECURSIVE FragmentsOf(_)
FragmentsOf(names) ==
    IF names = <<>> THEN "" ELSE Fragment(Head(names)) \o FragmentsOf(Tail(names))

\* C4: for every root type of the registry the string is the root's fragment,
\* then the fragment of each type reachable from the root through field
\* types, once each, the root left out, in ascending order of name; no other
\* type appears.
TypeStringIsSortedClosure ==
    \A c \in Slots :
    (TypeStringCall(c) /\ calls[c].args.rootType \in TypeNames)
        => LET root == calls[c].args.rootType
               others == SelectSeq(AscendingTypeNames,
                            LAMBDA n : n \in ReachableFrom({root}) \ {root})
           IN  calls[c].result = Return(Fragment(root) \o FragmentsOf(others))

\* A call has returned for a root with dependencies at two depths:
\* PieceMetadata from AddPieces, MetadataEntry from PieceMetadata.
NestedDependenciesCollected ==
    \E c \in Slots :
    /\ TypeStringCall(c)
    /\ calls[c].args.rootType \in TypeNames
    /\ \E n \in ReferredTo(calls[c].args.rootType) : ReferredTo(n) # {}
    /\ calls[c].result.kind = "return"


(***************************************************************************)
(* Properties of the sign operations.                                      *)
(***************************************************************************)

SignOps ==
    {"signCreateDataSet", "signAddPieces", "signSchedulePieceRemovals",
     "signDeleteDataSet"}

SignCall(c) == calls[c].pc = "settled" /\ calls[c].op \in SignOps

AddPiecesCall(c) == calls[c].pc = "settled" /\ calls[c].op = "signAddPieces"

\* The value a request hands to its back end: the value argument of
\* signTypedData, the message of the document sent to the agent.
PayloadOf(request) ==
    IF request.backend = "local" THEN request.value
    ELSE request.params[2].json.message

\* C5: every AddPieces payload handed to a back end has as many pieceMetadata
\* entries as pieceData entries, entry i carries pieceIndex i, and when no
\* per-piece metadata was supplied every entry's metadata is the empty list.
PieceMetadataAligned ==
    \A c \in Slots :
    calls[c].op = "signAddPieces" =>
        \A r \in DOMAIN calls[c].requests :
            LET payload == PayloadOf(calls[c].requests[r]) IN
            /\ Len(payload.pieceMetadata) = Len(payload.pieceData)
            /\ \A k \in DOMAIN payload.pieceMetadata :
                  /\ ReadUint(payload.pieceMetadata[k].pieceIndex)
                        = [d |-> NatDigits(k - 1), neg |-> FALSE, ok |-> TRUE]
                  /\ ~calls[c].args.metadata.supplied
                        => payload.pieceMetadata[k].metadata = <<>>

\* A payload of two pieces went to a back end with no metadata supplied.
DefaultMetadataHandedOver ==
    \E c \in Slots :
    /\ AddPiecesCall(c)
    /\ ~calls[c].args.metadata.supplied
    /\ calls[c].requests # <<>>
    /\ Len(PayloadOf(calls[c].requests[1]).pieceData) = 2
    /\ Len(PayloadOf(calls[c].requests[1]).pieceMetadata) = 2

\* The call failed on the metadata length, the probe not run, nothing asked
\* of a back end.
FailedOnMetadataLength(c) ==
    /\ calls[c].result.kind = "throw"
    /\ calls[c].result.message = "metadata length must match pieceDataArray length"
    /\ calls[c].path = "none"
    /\ calls[c].requests = <<>>

\* C6 as stated: a supplied metadata array of length m with a piece list of
\* length n, m # n (m = 0 with n > 0 included), makes signAddPieces fail with
\* the invalid-argument error before the probe and before any request.
AnyLengthMismatchFails ==
    \A c \in Slots :
    (/\ AddPiecesCall(c)
     /\ calls[c].args.metadata.supplied
     /\ Len(calls[c].args.metadata.value) # Len(calls[c].args.pieceDataArray))
        => FailedOnMetadataLength(c)

\* C6 amended: a supplied metadata array of length m > 0 with a piece list of
\* length n # m makes signAddPieces fail with the invalid-argument error
\* before the probe and before any request; an empty array is taken as no
\* metadata.
NonEmptyLengthMismatchFails ==
    \A c \in Slots :
    (/\ AddPiecesCall(c)
     /\ calls[c].args.metadata.supplied
     /\ Len(calls[c].args.metadata.value) > 0
     /\ Len(calls[c].args.metadata.value) # Len(calls[c].args.pieceDataArray))
        => FailedOnMetadataLength(c)

\* A call with more metadata lists than pieces has failed.
LongerMetadataRejected ==
    \E c \in Slots :
    /\ AddPiecesCall(c)
    /\ calls[c].args.metadata.supplied
    /\ Len(calls[c].args.metadata.value) > Len(calls[c].args.pieceDataArray)
    /\ FailedOnMetadataLength(c)

\* The piece list holds, at position k, a string that is no piece CID.
InvalidPieceAt(c, k) ==
    /\ calls[c].args.pieceDataArray[k].t = "text"
    /\ asPieceCID(calls[c].args.pieceDataArray[k].s) = Null

FailedOnInvalidPiece(c) ==
    /\ calls[c].result.kind = "throw"
    /\ calls[c].result.message = "Invalid PieceCID: null"
    /\ calls[c].requests = <<>>

\* C7 as stated: whenever any element of the piece list is a string that is
\* no piece CID, signAddPieces fails with the invalid-piece error, no request
\* is issued and no signature returned.
AnyInvalidPieceReported ==
    \A c \in Slots :
    (AddPiecesCall(c) /\ \E k \in DOMAIN calls[c].args.pieceDataArray : InvalidPieceAt(c, k))
        => FailedOnInvalidPiece(c)

\* C7 amended: whenever any element of the piece list is a string that is no
\* piece CID, signAddPieces fails, no request is issued and no signature
\* returned; the error is the invalid-piece error unless the metadata length
\* check, which comes first, has failed.
AnyInvalidPieceFails ==
    \A c \in Slots :
    (AddPiecesCall(c) /\ \E k \in DOMAIN calls[c].args.pieceDataArray : InvalidPieceAt(c, k))
        => /\ calls[c].result.kind = "throw"
           /\ calls[c].requests = <<>>
           /\ calls[c].path = "none"
           /\ ~MetadataLengthMismatch(DefaultEmpty(calls[c].args.metadata),
                                      Len(calls[c].args.pieceDataArray))
                 => FailedOnInvalidPiece(c)

\* A call whose first piece is valid and whose second is no piece CID has
\* failed on that piece.
SecondPieceRejected ==
    \E c \in Slots :
    /\ AddPiecesCall(c)
    /\ Len(calls[c].args.pieceDataArray) = 2
    /\ ~InvalidPieceAt(c, 1)
    /\ InvalidPieceAt(c, 2)
    /\ FailedOnInvalidPiece(c)


\* The integer identifiers among the arguments of the call.
IdentifiersOf(c) ==
    IF c.op = "signAddPieces" THEN {c.args.clientDataSetId, c.args.firstPieceId}
    ELSE IF c.op = "signSchedulePieceRemovals"
    THEN {c.args.clientDataSetId} \cup Range(c.args.pieceIds)
    ELSE {c.args.clientDataSetId}

IsNegative(v) == v.neg /\ v.d # <<0>>

\* C8: a sign operation given a negative identifier (clientDataSetId,
\* firstPieceId or an element of pieceIds) rejects it before any encoding:
\* on either path no signing request is issued.
NegativeIdentifierRejected ==
    \A c \in Slots :
    (SignCall(c) /\ \E v \in IdentifiersOf(calls[c]) : IsNegative(v))
        => /\ calls[c].result.kind = "throw"
           /\ calls[c].requests = <<>>

\* What the probe looks at: the signer after unwrapping and its provider.
ActiveKey == getUnderlyingSigner(signer)

\* The provider shows a way to put a request to a wallet: the
\* `_eip1193Provider`, `request` or `send` member.
ShowsRequestCapability(provider) ==
    /\ provider.t = "provider"
    /\ provider.eip1193 \/ provider.request \/ provider.send

\* C9: the probe chooses the local path whenever the active key exposes key
\* material; it chooses the agent path only when the key exposes none and its
\* provider is non-null and shows a request capability; it chooses the local
\* path when there is no provider, when nothing can be determined or when the
\* probe raises.
ProbeChoice ==
    \A c \in Slots :
    (SignCall(c) /\ calls[c].path # "none") =>
        /\ HasSigningKey(ActiveKey) => calls[c].path = "local"
        /\ calls[c].path = "agent" =>
              /\ ~HasSigningKey(ActiveKey)
              /\ ShowsRequestCapability(ProviderOf(ActiveKey))
        /\ ProviderOf(ActiveKey) \in {Null, Raises} => calls[c].path = "local"
        /\ (/\ ~HasSigningKey(ActiveKey)
            /\ ~ShowsRequestCapability(ProviderOf(ActiveKey))) => calls[c].path = "local"

\* The root type of each operation.
RootTypeOf ==
    [signCreateDataSet |-> "CreateDataSet",
     signAddPieces |-> "AddPieces",
     signSchedulePieceRemovals |-> "SchedulePieceRemovals",
     signDeleteDataSet |-> "DeleteDataSet"]

\* Every bytes field of an AddPieces message is a hex string.
BinaryFieldsHex(op, message) ==
    op = "signAddPieces" =>
        \A k \in DOMAIN message.pieceData :
            /\ message.pieceData[k].data.t = "string"
            /\ ParseHex(message.pieceData[k].data.s).ok

\* C10: on the agent path the document has the operation's root type as
\* primaryType, as types the EIP712Domain entry and exactly the root type with
\* the types it transitively refers to, the helper's domain, and a message
\* whose binary fields are hex strings; it goes out as exactly one
\* eth_signTypedData_v4 request whose parameters are the signer's address and
\* the serialized document.
AgentDocumentWellFormed ==
    \A c \in Slots :
    (SignCall(c) /\ calls[c].path = "agent") =>
        /\ Len(calls[c].requests) = 1
        /\ calls[c].requests[1].backend = "agent"
        /\ calls[c].requests[1].method = "eth_signTypedData_v4"
        /\ Len(calls[c].requests[1].params) = 2
        /\ calls[c].requests[1].params[1] = signer.key.address
        /\ \E doc \in {calls[c].requests[1].params[2].json} :
              /\ calls[c].requests[1].params[2] = Stringify(doc)
              /\ doc.primaryType = RootTypeOf[calls[c].op]
              /\ Head(doc.types) = EIP712Domain
              /\ {doc.types[k].name : k \in 2..Len(doc.types)}
                    = ReachableFrom({RootTypeOf[calls[c].op]})
              /\ Len(doc.types) = 1 + Cardinality(ReachableFrom({RootTypeOf[calls[c].op]}))
              /\ \A k \in 2..Len(doc.types) :
                    doc.types[k].fields = EIP712_TYPES[doc.types[k].name]
              /\ doc.domain = domain
              /\ BinaryFieldsHex(calls[c].op, doc.message)

\* What a request asks its back end to sign, as the back end reads it.
DigestOf(request) ==
    IF request.backend = "local"
    THEN Digest(request.domain, request.types, PrimaryOf(request.types), request.value)
    ELSE LET doc == request.params[2].json
         IN  Digest(doc.domain, Tail(doc.types), doc.primaryType, doc.message)

\* Every uint256 and bytes field of what the request hands over can be read.
Readable(request) ==
    IF request.backend = "local"
    THEN StructOk(PrimaryOf(request.types), request.value)
    ELSE StructOk(request.params[2].json.primaryType, request.params[2].json.message)

\* C1: for every valid input, what a sign operation hands to the back end, on
\* the local path and on the agent path, denotes field for field the value,
\* with the types and the domain, from which the returned signedData is
\* computed; the signature returned is over signedData.  The calls looked at
\* are those whose arguments the caller left as it passed them.
PayloadDenotesSignedData ==
    \A c \in Slots :
    (/\ SignCall(c)
     /\ calls[c].now = calls[c].args
     /\ \A v \in IdentifiersOf(calls[c]) : ~IsNegative(v)) =>
        /\ \A r \in DOMAIN calls[c].requests : Readable(calls[c].requests[r])
        /\ calls[c].result.kind = "return" =>
              /\ \A r \in DOMAIN calls[c].requests :
                    DigestOf(calls[c].requests[r]) = calls[c].result.value.signedData
              /\ calls[c].result.value.signature.over = calls[c].result.value.signedData


\* The key inside the wrappers, as a signer of its own.
BareKey == [layers |-> <<>>, key |-> signer.key]

\* C17: a key inside one pass-through wrapper (a NonceManager around a
\* signer) takes the path the bare key would take; when it holds key material
\* that is the local path, and the signature is requested from the key, not
\* from the wrapper; the probe unwraps no more than one layer.
WrappedKeyDispatchedAsBare ==
    \A c \in Slots :
    (SignCall(c) /\ calls[c].path # "none" /\ Len(signer.layers) = 1) =>
        /\ calls[c].path = IF isMetaMaskSigner(BareKey, calls[c].win)
                  THEN "agent" ELSE "local"
        /\ signer.key.signingKey =>
              /\ calls[c].path = "local"
              /\ \A r \in DOMAIN calls[c].requests :
                    /\ calls[c].requests[r].backend = "local"
                    /\ calls[c].requests[r].target = BareKey
        /\ Len(ActiveKey.layers) >= Len(signer.layers) - 1


\* C18: for one helper, whose signer never changes, the probe chooses the
\* same path on every sign call, whatever happens to the global environment
\* between the calls: a call that runs the probe takes the path the latest
\* such call before it took.
ProbeStable ==
    [][(probed # "none" /\ probed' # "none") => probed' = probed]_vars


(***************************************************************************)
(* Properties of SessionKey.fetchExpiries and SessionKey.login.            *)
(***************************************************************************)

\* The call of site s is a fetchExpiries whose batched read was answered.
Answered(s) ==
    caller[s].op = "fetchExpiries" /\ caller[s].pc = "settled" /\ caller[s].answered

FailedSubCalls(s) == {i \in DOMAIN caller[s].results : ~caller[s].results[i].success}

\* The timestamp the i-th sub-call returned.
Returned(s, i) == caller[s].results[i].returnData.uint256

\* C11: a fetchExpiries whose batched read returns exactly one sub-call marked
\* as failed completes without error, yields unknown (no timestamp) for that
\* permission and the returned timestamp for each other requested permission.
OneFailedSubCallTolerated ==
    \A s \in Sites :
        (Answered(s) /\ Cardinality(FailedSubCalls(s)) = 1) =>
            /\ caller[s].result.kind = "return"
            /\ \A i \in DOMAIN caller[s].permissions :
                  LET p == caller[s].permissions[i]
                      got == caller[s].result.value
                  IN  IF i \in FailedSubCalls(s)
                      THEN p \in DOMAIN got => got[p] = Null
                      ELSE p \in DOMAIN got /\ got[p] = Returned(s, i)

\* C12: whatever list of permissions is requested, a fetchExpiries that
\* returns has an entry for exactly the requested permissions, and the entry
\* of the i-th requested permission is the timestamp of the i-th sub-call.
StoredUnderRequestedPermission ==
    \A s \in Sites :
        (Answered(s) /\ caller[s].result.kind = "return") =>
            /\ DOMAIN caller[s].result.value = Range(caller[s].permissions)
            /\ \A i \in DOMAIN caller[s].permissions :
                  caller[s].result.value[caller[s].permissions[i]] = Returned(s, i)


\* C16: a fetchExpiries call issues one batched read exactly when its three
\* address lookups have all resolved, and none before that or when a lookup
\* failed; the batch holds one sub-call per requested permission, in request
\* order, each to the registry address with allowFailure true and carrying
\* (owner address, signer address, permission).
OneBatchedReadAfterLookups ==
    \A s \in Sites :
        caller[s].op = "fetchExpiries" =>
            LET c == caller[s]
                resolved == \A who \in LookupNames : c.lookups[who] = "resolved"
            IN  /\ Len(c.reads) = IF resolved THEN 1 ELSE 0
                /\ (\E who \in LookupNames : c.lookups[who] = "failed") => c.reads = <<>>
                /\ \A r \in DOMAIN c.reads :
                      /\ Len(c.reads[r]) = Len(c.permissions)
                      /\ \A i \in DOMAIN c.permissions :
                            /\ c.reads[r][i].target = "0xRegistry"
                            /\ c.reads[r][i].allowFailure = TRUE
                            /\ c.reads[r][i].callData.fn = "authorizationExpiry"
                            /\ c.reads[r][i].callData.args =
                                   <<"0xOwner", "0xSession", c.permissions[i]>>

\* A read is in flight for two permissions requested out of their usual order.
ReadIssuedForReorderedList ==
    \E s \in Sites :
        /\ caller[s].pc = "reading"
        /\ caller[s].permissions = <<DELETE_DATA_SET_TYPEHASH, ADD_PIECES_TYPEHASH>>
        /\ Len(caller[s].reads) = 1


\* Site s moves in this step, as part of a call of `op`.
StepOf(s, op) ==
    caller'[s] # caller[s] /\ (caller[s].op = op \/ caller'[s].op = op)

\* The permission type hashes under which the cache has an entry.
HashKeys == DOMAIN expiries \cap Range(PDP_PERMISSIONS)

\* C13: a step by which a fetchExpiries call fails (at the network lookup,
\* an address lookup, the batched read or the decoding of an entry) leaves
\* the expiry cache as it was, entry for entry.
FailedRefreshKeepsCache ==
    [][\A s \in Sites :
          (StepOf(s, "fetchExpiries") /\ caller'[s].pc = "settled"
              /\ caller'[s].result.kind = "throw")
          => expiries' = expiries]_vars

\* C15: in every reachable state the keys of the expiry cache are exactly
\* the four permission type hashes and each entry is unknown or a timestamp
\* of the registry; there is no entry under any other key.
CacheKeyedByTypeHashes ==
    /\ DOMAIN expiries = Range(PDP_PERMISSIONS)
    /\ \A k \in DOMAIN expiries : expiries[k] = Null \/ expiries[k] \in Stamps


\* What a login write must carry: the delegated signer's address, the given
\* expiry and the given permission list, addressed to the registry.
CarriesLoginOf(w, c) ==
    /\ w.to = "0xRegistry"
    /\ w.method = "login"
    /\ w.args = [signer |-> "0xSession", permissions |-> c.permissions, expiry |-> c.expiry]

\* C14 as stated: every login issues exactly one write to the registry,
\* carrying the delegated signer's address, the expiry and the permissions;
\* no step of a login changes a cached expiry, and a failed login has not
\* issued a second write.
LoginWritesExactlyOnce ==
    [][\A s \in Sites :
          StepOf(s, "login") =>
              /\ expiries' = expiries
              /\ (caller'[s].op = "login" /\ caller'[s].pc = "settled") =>
                    /\ Len(caller'[s].writes) = 1
                    /\ CarriesLoginOf(caller'[s].writes[1], caller'[s])]_vars

\* C14: a login issues one write to the registry once the delegated signer's
\* address has been resolved, carrying that address, the expiry and the
\* permissions, and none before or when the address lookup fails; it never
\* issues a second write; no step of a login changes a cached expiry,
\* whether the write succeeds or fails; a login whose address lookup failed
\* ends with the error.
LoginWritesOnceAddressResolved ==
    [][\A s \in Sites :
          StepOf(s, "login") =>
              /\ expiries' = expiries
              /\ caller'[s].op = "login" =>
                    LET c == caller'[s]
                    IN  /\ Len(c.writes) = IF c.lookups["signer"] = "resolved" THEN 1 ELSE 0
                        /\ \A w \in DOMAIN c.writes : CarriesLoginOf(c.writes[w], c)
                        /\ (c.pc = "settled" /\ c.writes = <<>>) => c.result.kind = "throw"]_vars

\* A login for one permission whose write was rejected, on a SessionKey whose
\* cache holds timestamps.
LoginWriteRejected ==
    \E s \in Sites :
        /\ caller[s].op = "login" /\ caller[s].pc = "settled"
        /\ caller[s].result.kind = "throw"
        /\ Len(caller[s].writes) = 1
        /\ caller[s].permissions = <<ADD_PIECES_TYPEHASH>>
        /\ \A k \in Range(PDP_PERMISSIONS) : k \in DOMAIN expiries /\ expiries[k] \in Stamps



(***************************************************************************)
(* Overlapping refreshes: two call sites share a SessionKey of the caching *)
(* revision, and every batched read that is answered is answered with all  *)
(* its sub-calls succeeding and returning a timestamp.                     *)
(***************************************************************************)

AllSucceed(results) ==
    \A i \in DOMAIN results : results[i].success /\ results[i].returnData # EmptyData

OverlapNext ==
    \/ \E s \in Sites : StartFetchExpiries(s, PDP_PERMISSIONS)
    \/ \E s \in Sites : NetworkLookup(s)
    \/ \E s \in Sites : AddressLookup(s)
    \/ \E s \in Sites : ReadResponseCached(s) /\ AllSucceed(caller'[s].results)
    \/ \E s \in Sites : ReturnToCaller(s)

OverlapSpec == SessionInit /\ [][OverlapNext]_vars

\* Of two answered calls, s stored its batch after o did.
StoredLast(s, o) ==
    /\ s # o /\ Answered(s) /\ Answered(o)
    /\ o \in caller[s].storedAfter
    /\ s \notin caller[o].storedAfter

\* The cache's entries under the type hashes are those of the batch `results`.
HoldsBatch(results) ==
    /\ HashKeys = Range(PDP_PERMISSIONS)
    /\ \A i \in DOMAIN PDP_PERMISSIONS :
          expiries[PDP_PERMISSIONS[i]] = results[i].returnData.uint256

\* C19: with two overlapping fetchExpiries calls whose sub-calls all succeed,
\* the cache is in every state either as constructed or holds, under the
\* four type hashes, the entries of one single batch response, never entries
\* of two; and when both calls have completed it holds the response that
\* was stored last.
RefreshWritesAtomic ==
    /\ \/ expiries = ConstructedExpiries
       \/ \E results \in UniformBatchResults(Len(PDP_PERMISSIONS)) :
             AllSucceed(results) /\ HoldsBatch(results)
    /\ \A s, o \in Sites : StoredLast(s, o) => HoldsBatch(caller[s].results)

\* Both calls have completed with different responses; the response stored
\* last answers the read that was issued first.
FirstReadStoredLast ==
    \E s, o \in Sites :
        /\ StoredLast(s, o)
        /\ s \in caller[o].readAfter
        /\ caller[s].results # caller[o].results
        /\ HoldsBatch(caller[s].results)

=============================================================================
